---- MODULE Spec2Model ----
(***************************************************************************)
(* Model of src/ex2/nexus_pipeline.py: processing stages, pipelines with   *)
(* success/error counters, and the NexusManager registry, history, chain   *)
(* and aggregation operations.                                             *)
(***************************************************************************)
EXTENDS Integers, Sequences, FiniteSets, TLC

(* ---------------------------------------------------------------------- *)
(* Bounds                                                                  *)
(* ---------------------------------------------------------------------- *)
MaxStages == 2      \* add_stage calls in a run, over all pipelines
MaxExec == 2        \* execute calls in a run, over all pipelines
MaxChain == 3       \* length of the name list given to chain_pipelines

(* ---------------------------------------------------------------------- *)
(* Values                                                                  *)
(* ---------------------------------------------------------------------- *)
\* Python None
None == "None"
\* {"sensor": "temp", "value": 23.5, "unit": "C"}
JsonData == "{sensor,value,unit}"
\* {"test": "data"}
TestData == "{test}"
\* "user,action,timestamp"
CsvData == "user,action,timestamp"
\* "Real-time sensor stream"
StreamData == "Real-time sensor stream"
\* the strings OutputStage builds
OutTemp == "Output: Processed temperature reading: 23.5C (Normal range)"
OutCsv == "Output: User activity logged: 1 actions processed"
OutStream == "Output: Stream summary: 5 readings, avg: 22.1C"
StrTest == "str({test})"
StrNone == "str(None)"

\* the records callers pass in: a mapping, a delimited line, and None
Records == {JsonData, CsvData, None}
\* the records the manager is driven with: one every stage accepts and one a
\* checking stage rejects
ManagerRecords == {JsonData, None}
Values == Records \cup {OutTemp, OutCsv, OutStream, StrTest, StrNone}

\* isinstance(data, dict)
IsDict(data) == data \in {JsonData, TestData}
\* isinstance(data, str)
IsStr(data) == data \in {CsvData, StreamData, OutTemp, OutCsv, OutStream, StrTest, StrNone}
\* "," in data, for a str
HasComma(data) == data \in {CsvData, OutStream}
\* "sensor" in data and "value" in data, for a dict
HasReading(data) == data = JsonData

Pids == {"p1", "p2"}
Names == {"A", "B"}
AdapterKinds == {"JSONAdapter", "CSVAdapter", "StreamAdapter"}
StageKinds == {"InputStage", "TransformStage", "OutputStage", "CheckStage"}
\* the stages that change or reject a record; InputStage and TransformStage
\* return the record they are given
ChangingStages == {"OutputStage", "CheckStage"}
\* the stage that makes an execute fail on some records
RejectingStages == {"CheckStage"}

\* outcome of a call that may raise
Returned(v) == [raised |-> FALSE, val |-> v]
Raised == [raised |-> TRUE, val |-> None]

(* ---------------------------------------------------------------------- *)
(* Stages                                                                  *)
(* ---------------------------------------------------------------------- *)
InputStage_process(data) == Returned(data)

TransformStage_process(data) == Returned(data)

OutputStage_process(data) ==
    IF IsDict(data)
    THEN IF HasReading(data) THEN Returned(OutTemp) ELSE Returned(StrTest)
    ELSE IF IsStr(data) /\ HasComma(data) THEN Returned(OutCsv)
    ELSE IF IsStr(data) THEN Returned(OutStream)
    ELSE Returned(StrNone)

\* a caller-supplied ProcessingStage: one that accepts mappings only and
\* raises on any other record
CheckStage_process(data) ==
    IF IsDict(data) THEN Returned(data) ELSE Raised

stage_process(stage, data) ==
    CASE stage = "InputStage" -> InputStage_process(data)
      [] stage = "TransformStage" -> TransformStage_process(data)
      [] stage = "OutputStage" -> OutputStage_process(data)
      [] stage = "CheckStage" -> CheckStage_process(data)

(* ---------------------------------------------------------------------- *)
(* State                                                                   *)
(* ---------------------------------------------------------------------- *)
VARIABLES
    adapter,            \* the adapter class of each pipeline object
    stages,             \* ProcessingPipeline.stages, per pipeline object
    stats,              \* ProcessingPipeline.stats, per pipeline object
    pipelines,          \* NexusManager.pipelines: name -> pipeline object
    execution_history,  \* NexusManager.execution_history
    last,               \* the call made last: its arguments and its outcome
    held                \* the dict a caller of get_stats or get_all_stats kept

vars == <<adapter, stages, stats, pipelines, execution_history, last, held>>

NoReport == [kind |-> "none"]

\* the identity of a dict object built by the call that returns it
FreshDict == "fresh"
\* the caller keeps no dict
NoSnapshot ==
    [obj |-> "none", of |-> "-", val |-> [success |-> 0, errors |-> 0], written |-> FALSE]

\* op(args) was called; it returned ret, or raised. failed: execute caught an
\* exception; invoked: the stage.process calls execute made
Call(op, pid, name, names, data, ret, raised, failed, invoked, report) ==
    [op |-> op, pid |-> pid, name |-> name, names |-> names, data |-> data,
     ret |-> ret, raised |-> raised, failed |-> failed, invoked |-> invoked,
     report |-> report]

ProcessingPipeline_init == [stages |-> <<>>, stats |-> [success |-> 0, errors |-> 0]]

NexusManager_init == [pipelines |-> <<>>, execution_history |-> <<>>]

\* the state after NexusManager() and after the pipeline objects were built
\* from the adapter classes a
InitWith(a) ==
    /\ adapter = a
    /\ stages = [p \in Pids |-> ProcessingPipeline_init.stages]
    /\ stats = [p \in Pids |-> ProcessingPipeline_init.stats]
    /\ pipelines = NexusManager_init.pipelines
    /\ execution_history = NexusManager_init.execution_history
    /\ last = Call("init", "-", "-", <<>>, None, None, FALSE, FALSE, 0, NoReport)
    /\ held = NoSnapshot

\* the two pipelines are a JSONAdapter and a CSVAdapter
Init == InitWith([p \in Pids |-> IF p = "p1" THEN "JSONAdapter" ELSE "CSVAdapter"])

\* the two pipelines are of any adapter class
InitAnyAdapter == \E a \in [Pids -> AdapterKinds] : InitWith(a)

RECURSIVE SumOver(_, _)
SumOver(S, f) ==
    IF S = {} THEN 0
    ELSE LET x == CHOOSE y \in S : TRUE
         IN  f[x] + SumOver(S \ {x}, f)

\* the add_stage calls and the execute calls made so far
TotalStages == Len(stages["p1"]) + Len(stages["p2"])
TotalExec ==
    stats["p1"].success + stats["p1"].errors + stats["p2"].success + stats["p2"].errors

(* ---------------------------------------------------------------------- *)
(* ProcessingPipeline                                                      *)
(* ---------------------------------------------------------------------- *)
\* the loop "for stage in self.stages: result = stage.process(result)" from
\* stage i on; invoked counts the stage.process calls made
RECURSIVE stage_loop(_, _, _)
stage_loop(stgs, i, result) ==
    IF i > Len(stgs)
    THEN [raised |-> FALSE, val |-> result, invoked |-> Len(stgs)]
    ELSE LET r == stage_process(stgs[i], result)
         IN  IF r.raised
             THEN [raised |-> TRUE, val |-> None, invoked |-> i]
             ELSE stage_loop(stgs, i + 1, r.val)

\* the loop with a try/except inside it: a stage that raises is passed over
RECURSIVE stage_loop_passing_over(_, _, _)
stage_loop_passing_over(stgs, i, result) ==
    IF i > Len(stgs)
    THEN [raised |-> FALSE, val |-> result, invoked |-> Len(stgs)]
    ELSE LET r == stage_process(stgs[i], result)
         IN  stage_loop_passing_over(stgs, i + 1, IF r.raised THEN result ELSE r.val)

JSONAdapter_process_passing_over(stgs, data) == stage_loop_passing_over(stgs, 1, data)

\* the loop giving every stage the record process was called with
RECURSIVE stage_loop_unchained(_, _, _, _)
stage_loop_unchained(stgs, i, data, result) ==
    IF i > Len(stgs)
    THEN [raised |-> FALSE, val |-> result, invoked |-> Len(stgs)]
    ELSE LET r == stage_process(stgs[i], data)
         IN  IF r.raised
             THEN [raised |-> TRUE, val |-> None, invoked |-> i]
             ELSE stage_loop_unchained(stgs, i + 1, data, r.val)

StreamAdapter_process_unchained(stgs, data) == stage_loop_unchained(stgs, 1, data, data)

JSONAdapter_process(stgs, data) == stage_loop(stgs, 1, data)

CSVAdapter_process(stgs, data) == stage_loop(stgs, 1, data)

StreamAdapter_process(stgs, data) == stage_loop(stgs, 1, data)

\* pipeline.process(data) on the pipeline object p, in the current state
process(p, data) ==
    CASE adapter[p] = "JSONAdapter" -> JSONAdapter_process(stages[p], data)
      [] adapter[p] = "CSVAdapter" -> CSVAdapter_process(stages[p], data)
      [] adapter[p] = "StreamAdapter" -> StreamAdapter_process(stages[p], data)

\* execute counting the success before it calls process
execute_outcome_counts_early(st, r) ==
    IF ~r.raised
    THEN [stats |-> [st EXCEPT !.success = @ + 1], ret |-> r.val]
    ELSE [stats |-> [st EXCEPT !.success = @ + 1, !.errors = @ + 1], ret |-> None]

\* execute with an except branch that does not count the failure
execute_outcome_uncounted_failure(st, r) ==
    IF ~r.raised
    THEN [stats |-> [st EXCEPT !.success = @ + 1], ret |-> r.val]
    ELSE [stats |-> st, ret |-> None]

\* the try/except of execute around the outcome r of process: the new
\* counters and the value returned
execute_outcome(st, r) ==
    IF ~r.raised
    THEN [stats |-> [st EXCEPT !.success = @ + 1], ret |-> r.val]
    ELSE [stats |-> [st EXCEPT !.errors = @ + 1], ret |-> None]

\* execute on a stats dict that is an attribute of the class, shared by every
\* pipeline object
execute_sharing_stats(p, data) ==
    /\ TotalExec < MaxExec
    /\ \E r \in {process(p, data)} :
       \E o \in {execute_outcome(stats[p], r)} :
           /\ stats' = [q \in Pids |-> o.stats]
           /\ last' = Call("execute", p, "-", <<>>, data, o.ret, FALSE, r.raised,
                           r.invoked, NoReport)
    /\ UNCHANGED <<adapter, stages, pipelines, execution_history, held>>

add_stage(p, stage) ==
    /\ TotalStages < MaxStages
    /\ stages' = [stages EXCEPT ![p] = Append(@, stage)]
    /\ last' = Call("add_stage", p, "-", <<>>, stage, None, FALSE, FALSE, 0, NoReport)
    /\ UNCHANGED <<adapter, stats, pipelines, execution_history, held>>

execute(p, data) ==
    /\ TotalExec < MaxExec
    /\ \E r \in {process(p, data)} :
       \E o \in {execute_outcome(stats[p], r)} :
           /\ stats' = [stats EXCEPT ![p] = o.stats]
           /\ last' = Call("execute", p, "-", <<>>, data, o.ret, FALSE, r.raised,
                           r.invoked, NoReport)
    /\ UNCHANGED <<adapter, stages, pipelines, execution_history, held>>

\* pipeline.process(data) called by the owner of the pipeline object p: the
\* exception of a stage reaches the caller
process_call(p, data) ==
    /\ \E r \in {process(p, data)} :
           last' = Call("process", p, "-", <<>>, data, r.val, r.raised, FALSE,
                        r.invoked, NoReport)
    /\ UNCHANGED <<adapter, stages, stats, pipelines, execution_history, held>>

\* dict(self.stats)
get_stats_value(st) == [success |-> st.success, errors |-> st.errors]

\* "return self.stats": the dict returned is the live dict of the pipeline
get_stats_object_live(p) == p

\* the identity of the dict get_stats returns: dict(...) builds a new one
get_stats_object(p) == FreshDict

get_stats(p) ==
    /\ last' = Call("get_stats", p, "-", <<>>, None, None, FALSE, FALSE, 0,
                    [kind |-> "stats", stats |-> get_stats_value(stats[p]),
                     obj |-> get_stats_object(p)])
    /\ UNCHANGED <<adapter, stages, stats, pipelines, execution_history, held>>

(* ---------------------------------------------------------------------- *)
(* NexusManager                                                            *)
(* ---------------------------------------------------------------------- *)
\* register_pipeline without the "already register" test
register_result_overwriting(reg, name, p) ==
    [n \in DOMAIN reg \cup {name} |-> IF n = name THEN p ELSE reg[n]]

\* the registry after register_pipeline(name, p) on the registry reg
register_result(reg, name, p) ==
    IF name \in DOMAIN reg
    THEN reg
    ELSE [n \in DOMAIN reg \cup {name} |-> IF n = name THEN p ELSE reg[n]]

register_pipeline(name, p) ==
    /\ pipelines' = register_result(pipelines, name, p)
    /\ last' = Call("register_pipeline", p, name, <<>>, None, None, FALSE, FALSE, 0,
                    NoReport)
    /\ UNCHANGED <<adapter, stages, stats, execution_history, held>>

history_entry(name, data, result) ==
    [pipeline |-> name, data |-> data, result |-> result]

\* execute_pipeline appending to the history before the lookup of the name
execute_pipeline_result_logging_missing(name, data) ==
    IF name \notin DOMAIN pipelines
    THEN [pid |-> "-", stats |-> stats,
          history |-> Append(execution_history, history_entry(name, data, None)),
          ret |-> None, failed |-> FALSE, invoked |-> 0]
    ELSE LET p == pipelines[name]
             r == process(p, data)
             o == execute_outcome(stats[p], r)
         IN  [pid |-> p, stats |-> [stats EXCEPT ![p] = o.stats],
              history |-> Append(execution_history, history_entry(name, data, o.ret)),
              ret |-> o.ret, failed |-> r.raised, invoked |-> r.invoked]

\* execute_pipeline appending to the history under "if result:"
execute_pipeline_result_logging_results(name, data) ==
    IF name \notin DOMAIN pipelines
    THEN [pid |-> "-", stats |-> stats, history |-> execution_history,
          ret |-> None, failed |-> FALSE, invoked |-> 0]
    ELSE LET p == pipelines[name]
             r == process(p, data)
             o == execute_outcome(stats[p], r)
         IN  [pid |-> p, stats |-> [stats EXCEPT ![p] = o.stats],
              history |-> IF o.ret = None THEN execution_history
                          ELSE Append(execution_history, history_entry(name, data, o.ret)),
              ret |-> o.ret, failed |-> r.raised, invoked |-> r.invoked]

\* what execute_pipeline(name, data) does: the pipeline it ran, the counters
\* and the history it leaves, and the value it returns
execute_pipeline_result(name, data) ==
    IF name \notin DOMAIN pipelines
    THEN [pid |-> "-", stats |-> stats, history |-> execution_history,
          ret |-> None, failed |-> FALSE, invoked |-> 0]
    ELSE LET p == pipelines[name]
             r == process(p, data)
             o == execute_outcome(stats[p], r)
         IN  [pid |-> p, stats |-> [stats EXCEPT ![p] = o.stats],
              history |-> Append(execution_history, history_entry(name, data, o.ret)),
              ret |-> o.ret, failed |-> r.raised, invoked |-> r.invoked]

execute_pipeline(name, data) ==
    /\ name \in DOMAIN pipelines => TotalExec < MaxExec
    /\ \E e \in {execute_pipeline_result(name, data)} :
           /\ stats' = e.stats
           /\ execution_history' = e.history
           /\ last' = Call("execute_pipeline", e.pid, name, <<>>, data, e.ret, FALSE,
                           e.failed, e.invoked, NoReport)
    /\ UNCHANGED <<adapter, stages, pipelines, held>>

\* the loop of chain_pipelines over pipeline_names, from position i on
RECURSIVE chain_loop(_, _, _)
chain_loop(names, i, current_data) ==
    IF i > Len(names)
    THEN Returned(current_data)
    ELSE IF names[i] \in DOMAIN pipelines
         THEN LET r == process(pipelines[names[i]], current_data)
              IN  IF r.raised THEN Raised
                  ELSE chain_loop(names, i + 1, r.val)
         ELSE chain_loop(names, i + 1, current_data)

\* chain_pipelines starting its loop at the second name
chain_pipelines_result_from_second(names, data) ==
    [stats |-> stats, history |-> execution_history,
     out |-> chain_loop(names, 2, data)]

\* chain_pipelines counting a success on every registered pipeline it names
chain_pipelines_result_counting(names, data) ==
    [stats |-> [q \in Pids |->
                  IF \E i \in 1..Len(names) :
                         names[i] \in DOMAIN pipelines /\ pipelines[names[i]] = q
                  THEN [stats[q] EXCEPT !.success = @ + 1]
                  ELSE stats[q]],
     history |-> execution_history,
     out |-> chain_loop(names, 1, data)]

\* what chain_pipelines(names, data) does: the counters and the history it
\* leaves, and the value it returns unless a hop raised
chain_pipelines_result(names, data) ==
    [stats |-> stats, history |-> execution_history,
     out |-> chain_loop(names, 1, data)]

chain_pipelines(names, data) ==
    /\ \E c \in {chain_pipelines_result(names, data)} :
           /\ stats' = c.stats
           /\ execution_history' = c.history
           /\ last' = Call("chain_pipelines", "-", "-", names, data, c.out.val,
                           c.out.raised, FALSE, 0, NoReport)
    /\ UNCHANGED <<adapter, stages, pipelines, held>>

get_all_stats_value == [n \in DOMAIN pipelines |-> get_stats_value(stats[pipelines[n]])]

\* the identity of each value of all_stats: what pipeline.get_stats() returned
get_all_stats_objects == [n \in DOMAIN pipelines |-> get_stats_object(pipelines[n])]

get_all_stats ==
    /\ last' = Call("get_all_stats", "-", "-", <<>>, None, None, FALSE, FALSE, 0,
                    [kind |-> "all_stats", all |-> get_all_stats_value,
                     objs |-> get_all_stats_objects])
    /\ UNCHANGED <<adapter, stages, stats, pipelines, execution_history, held>>

\* the efficiency as the share of the successes among the pipelines' errors
efficiency_of_errors(total_success, total_operations) ==
    IF total_operations > 0
    THEN [num |-> total_success * 100, den |-> total_operations - total_success]
    ELSE [num |-> 0, den |-> 1]

\* total_success / total_operations * 100 as the fraction num/den, or the
\* integer 0 (0/1) when there was no operation
efficiency_of(total_success, total_operations) ==
    IF total_operations > 0
    THEN [num |-> total_success * 100, den |-> total_operations]
    ELSE [num |-> 0, den |-> 1]

monitor_performance_value ==
    LET snap == [n \in DOMAIN pipelines |-> get_stats_value(stats[pipelines[n]])]
        total_success == SumOver(DOMAIN pipelines, [n \in DOMAIN pipelines |-> snap[n].success])
        total_errors == SumOver(DOMAIN pipelines, [n \in DOMAIN pipelines |-> snap[n].errors])
        total_operations == total_success + total_errors
    IN  [total_pipelines |-> Cardinality(DOMAIN pipelines),
         total_success |-> total_success,
         total_errors |-> total_errors,
         efficiency |-> efficiency_of(total_success, total_operations)]

\* a division by zero raises ZeroDivisionError
monitor_performance ==
    /\ \E m \in {monitor_performance_value} :
           last' = Call("monitor_performance", "-", "-", <<>>, None, None,
                        m.efficiency.den = 0, FALSE, 0, [kind |-> "monitor", m |-> m])
    /\ UNCHANGED <<adapter, stages, stats, pipelines, execution_history, held>>

(* ---------------------------------------------------------------------- *)
(* Callers of get_stats and get_all_stats                                  *)
(* ---------------------------------------------------------------------- *)
\* snap = pipeline.get_stats(): the caller keeps the dict returned last
hold_stats ==
    /\ last.op = "get_stats"
    /\ held' = [obj |-> last.report.obj, of |-> last.pid, val |-> last.report.stats,
                written |-> FALSE]
    /\ UNCHANGED <<adapter, stages, stats, pipelines, execution_history, last>>

\* snap = manager.get_all_stats()[n]
hold_all_stats_value(n) ==
    /\ last.op = "get_all_stats"
    /\ n \in DOMAIN last.report.all
    /\ held' = [obj |-> last.report.objs[n], of |-> pipelines[n],
                val |-> last.report.all[n], written |-> FALSE]
    /\ UNCHANGED <<adapter, stages, stats, pipelines, execution_history, last>>

\* the values a caller writes into the dict it keeps
WrittenValues == {0, 7}

\* snap[key] = v: the write goes to the dict object snap refers to, which is
\* the pipeline's stats when snap is that dict
write_held(key, v) ==
    /\ held.obj # "none"
    /\ ~held.written
    /\ IF held.obj \in Pids
       THEN /\ stats' = [stats EXCEPT ![held.obj][key] = v]
            /\ held' = [held EXCEPT !.written = TRUE]
       ELSE /\ held' = [held EXCEPT !.val[key] = v, !.written = TRUE]
            /\ UNCHANGED stats
    /\ UNCHANGED <<adapter, stages, pipelines, execution_history, last>>

(* ---------------------------------------------------------------------- *)
(* Specifications                                                          *)
(* ---------------------------------------------------------------------- *)
RECURSIVE SeqsUpTo(_, _)
SeqsUpTo(S, n) ==
    IF n = 0 THEN {<<>>}
    ELSE LET shorter == SeqsUpTo(S, n - 1)
         IN  shorter \cup {Append(s, x) : s \in shorter, x \in S}

NameLists == SeqsUpTo(Names, MaxChain)

\* every operation
Next ==
    \/ \E p \in Pids, stage \in StageKinds : add_stage(p, stage)
    \/ \E p \in Pids, data \in Records : execute(p, data)
    \/ \E p \in Pids : get_stats(p)
    \/ \E name \in Names, p \in Pids : register_pipeline(name, p)
    \/ \E name \in Names, data \in Records : execute_pipeline(name, data)
    \/ \E names \in NameLists, data \in Records : chain_pipelines(names, data)
    \/ get_all_stats
    \/ monitor_performance

Spec == Init /\ [][Next]_vars

\* the operations of a pipeline, on pipelines of every adapter class
NextPipeline ==
    \/ \E p \in Pids, stage \in StageKinds : add_stage(p, stage)
    \/ \E p \in Pids, data \in Records : execute(p, data)
    \/ \E p \in Pids : get_stats(p)

SpecPipeline == InitAnyAdapter /\ [][NextPipeline]_vars

\* building, registering and executing pipelines, and the manager's reports
NextManager ==
    \/ \E p \in Pids, stage \in ChangingStages : add_stage(p, stage)
    \/ \E p \in Pids, data \in ManagerRecords : execute(p, data)
    \/ \E name \in Names, p \in Pids : register_pipeline(name, p)
    \/ \E name \in Names, data \in ManagerRecords : execute_pipeline(name, data)
    \/ get_all_stats
    \/ monitor_performance

SpecManager == Init /\ [][NextManager]_vars

\* building and registering pipelines, and chaining them
NextChain ==
    \/ \E p \in Pids, stage \in ChangingStages : add_stage(p, stage)
    \/ \E name \in Names, p \in Pids : register_pipeline(name, p)
    \/ \E names \in NameLists, data \in Records : chain_pipelines(names, data)

SpecChain == Init /\ [][NextChain]_vars

\* building pipelines of every adapter class and calling their process
NextProcess ==
    \/ \E p \in Pids, stage \in StageKinds : add_stage(p, stage)
    \/ \E p \in Pids, data \in Records : process_call(p, data)

SpecProcess == InitAnyAdapter /\ [][NextProcess]_vars

\* the name the registry is given where one name is enough
CounterNames == {"A"}

\* executing pipelines, and callers that keep and write the dicts get_stats
\* and get_all_stats return
NextSnapshot ==
    \/ \E p \in Pids, stage \in ChangingStages : add_stage(p, stage)
    \/ \E p \in Pids, data \in ManagerRecords : execute(p, data)
    \/ \E p \in Pids : get_stats(p)
    \/ \E name \in CounterNames, p \in Pids : register_pipeline(name, p)
    \/ get_all_stats
    \/ hold_stats
    \/ \E n \in CounterNames : hold_all_stats_value(n)
    \/ \E key \in {"success", "errors"}, v \in WrittenValues : write_held(key, v)

SpecSnapshot == Init /\ [][NextSnapshot]_vars

\* every operation that can reach a pipeline's counters, on a registry of
\* one name
NextCounters ==
    \/ \E p \in Pids, stage \in ChangingStages : add_stage(p, stage)
    \/ \E p \in Pids, data \in ManagerRecords : process_call(p, data)
    \/ \E p \in Pids, data \in ManagerRecords : execute(p, data)
    \/ \E p \in Pids : get_stats(p)
    \/ \E name \in CounterNames, p \in Pids : register_pipeline(name, p)
    \/ \E name \in CounterNames, data \in ManagerRecords : execute_pipeline(name, data)
    \/ \E names \in SeqsUpTo(CounterNames, MaxChain), data \in ManagerRecords : chain_pipelines(names, data)
    \/ get_all_stats
    \/ monitor_performance

SpecCounters == Init /\ [][NextCounters]_vars

\* a manager that alone runs the pipelines it is given: registering,
\* executing by name, chaining and monitoring
NextLedger ==
    \/ \E p \in Pids, stage \in RejectingStages : add_stage(p, stage)
    \/ \E name \in Names, p \in Pids : register_pipeline(name, p)
    \/ \E name \in Names, data \in ManagerRecords : execute_pipeline(name, data)
    \/ \E names \in SeqsUpTo(CounterNames, MaxChain), data \in ManagerRecords : chain_pipelines(names, data)
    \/ monitor_performance

SpecLedger == Init /\ [][NextLedger]_vars

(* ---------------------------------------------------------------------- *)
(* Properties                                                              *)
(* ---------------------------------------------------------------------- *)
\* the outcome of the first k stages of stgs on data, the k-th applied to what
\* the first k - 1 produce
RECURSIVE After(_, _, _)
After(stgs, k, data) ==
    IF k = 0 THEN Returned(data)
    ELSE LET before == After(stgs, k - 1, data)
         IN  IF before.raised THEN Raised ELSE stage_process(stgs[k], before.val)

\* the position of the stage of stgs that raises on data, 0 when none does
FailsAt(stgs, data) ==
    LET failing == {k \in 1..Len(stgs) : After(stgs, k, data).raised}
    IN  IF failing = {} THEN 0
        ELSE CHOOSE k \in failing : \A j \in failing : k <= j

ExecuteOps == {"execute", "execute_pipeline"}
ManagerOps == {"register_pipeline", "execute_pipeline", "chain_pipelines",
               "get_all_stats", "monitor_performance"}

\* the call made last ran execute on a pipeline
RanExecute(call) == call.op \in ExecuteOps /\ call.pid \in Pids

\* C1: an execute whose stages all complete adds exactly 1 to stats.success
\* and leaves stats.errors as it was; an execute in which a stage fails adds
\* exactly 1 to stats.errors and leaves stats.success as it was.
C1_ExecuteCountsOnce ==
    [][\A p \in Pids :
          (last'.op = "execute" /\ last'.pid = p) =>
              IF FailsAt(stages[p], last'.data) = 0
              THEN /\ stats'[p].success = stats[p].success + 1
                   /\ stats'[p].errors = stats[p].errors
              ELSE /\ stats'[p].errors = stats[p].errors + 1
                   /\ stats'[p].success = stats[p].success]_vars

\* C1 witness: a pipeline has been executed with both outcomes
C1_Witness ==
    /\ last.op = "execute"
    /\ stats[last.pid].success = 1
    /\ stats[last.pid].errors = 1

\* C2 as claimed: execute_pipeline with a name that is not registered returns
\* None without raising, and the history gains exactly one entry, whose
\* result is None.
C2_MissingNameIsLogged ==
    [][(last'.op = "execute_pipeline" /\ last'.name \notin DOMAIN pipelines) =>
          /\ last'.ret = None
          /\ ~last'.raised
          /\ Len(execution_history') = Len(execution_history) + 1
          /\ SubSeq(execution_history', 1, Len(execution_history)) = execution_history
          /\ execution_history'[Len(execution_history')].result = None]_vars

\* C2 as amended: execute_pipeline with a name that is not registered returns
\* None without raising, and leaves the history and every counter as they
\* were.
C2_MissingNameReturnsNone ==
    [][(last'.op = "execute_pipeline" /\ last'.name \notin DOMAIN pipelines) =>
          /\ last'.ret = None
          /\ ~last'.raised
          /\ execution_history' = execution_history
          /\ stats' = stats]_vars

\* C2 witness: execute_pipeline was called with a name that is not registered,
\* when the history was not empty
C2_Witness ==
    /\ last.op = "execute_pipeline"
    /\ last.name \notin DOMAIN pipelines
    /\ Len(execution_history) >= 1

\* C3: register_pipeline(name, p2) with name registered to p1 leaves the
\* registry as it was; a registered name maps to the same pipeline ever after;
\* get_all_stats reports under each name the counters of the pipeline it maps
\* to, and an execute of any other pipeline leaves that report as it was.
C3_FirstRegistrationWins ==
    [][/\ (last'.op = "register_pipeline" /\ last'.name \in DOMAIN pipelines) =>
              pipelines' = pipelines
       /\ \A n \in DOMAIN pipelines :
              /\ n \in DOMAIN pipelines'
              /\ pipelines'[n] = pipelines[n]
              /\ (RanExecute(last') /\ last'.pid # pipelines[n]) =>
                     get_all_stats_value'[n] = get_all_stats_value[n]
       /\ last'.op = "get_all_stats" =>
              /\ DOMAIN last'.report.all = DOMAIN pipelines
              /\ \A n \in DOMAIN pipelines :
                     /\ last'.report.all[n].success = stats[pipelines[n]].success
                     /\ last'.report.all[n].errors = stats[pipelines[n]].errors]_vars

\* C3 witness: a name registered to a pipeline that has counted a success was
\* registered again with another pipeline
C3_Witness ==
    /\ last.op = "register_pipeline"
    /\ last.name \in DOMAIN pipelines
    /\ pipelines[last.name] # last.pid
    /\ stats[pipelines[last.name]].success >= 1

IsRegistered(n) == n \in DOMAIN pipelines

\* B.process(A.process(r)) for the pipelines named by hops = <<A, B>>, and
\* so on for any number of hops; r for none
RECURSIVE Composition(_, _)
Composition(hops, r) ==
    IF hops = <<>> THEN Returned(r)
    ELSE LET inner == Composition(SubSeq(hops, 1, Len(hops) - 1), r)
         IN  IF inner.raised THEN Raised
             ELSE LET outer == process(pipelines[hops[Len(hops)]], inner.val)
                  IN  IF outer.raised THEN Raised ELSE Returned(outer.val)

\* C4: chain_pipelines(names, r) is the composition of the process of the
\* registered pipelines among names, in list order, the names that are not
\* registered left out; it is r when no name is registered or names is empty.
C4_ChainIsComposition ==
    last.op = "chain_pipelines" =>
        LET expected == Composition(SelectSeq(last.names, IsRegistered), last.data)
        IN  /\ last.raised = expected.raised
            /\ last.ret = expected.val
            /\ (\A i \in 1..Len(last.names) : ~IsRegistered(last.names[i])) =>
                   (~last.raised /\ last.ret = last.data)

\* C4 witness: a chain whose middle name is not registered has returned a
\* transformed record
C4_Witness ==
    /\ last.op = "chain_pipelines"
    /\ Len(last.names) = 3
    /\ IsRegistered(last.names[1])
    /\ ~IsRegistered(last.names[2])
    /\ IsRegistered(last.names[3])
    /\ ~last.raised
    /\ last.ret # last.data

\* C5: an execute_pipeline on a registered name appends exactly the entry
\* {name, input record, result} to the history, with result None when the
\* pipeline failed; no step changes, reorders or removes an earlier entry.
C5_HistoryAppendOnly ==
    [][/\ (last'.op = "execute_pipeline" /\ last'.name \in DOMAIN pipelines) =>
              /\ execution_history' =
                     Append(execution_history,
                            [pipeline |-> last'.name, data |-> last'.data,
                             result |-> last'.ret])
              /\ last'.failed => last'.ret = None
              /\ last'.failed = (FailsAt(stages[pipelines[last'.name]], last'.data) # 0)
       /\ Len(execution_history') >= Len(execution_history)
       /\ SubSeq(execution_history', 1, Len(execution_history)) = execution_history]_vars

\* C5 witness: a failed execute_pipeline has been recorded after a successful
\* one
C5_Witness ==
    /\ last.op = "execute_pipeline"
    /\ last.failed
    /\ Len(execution_history) = 2
    /\ execution_history[1].result # None
    /\ execution_history[2] =
           [pipeline |-> last.name, data |-> last.data, result |-> None]

RegisteredTotal(f) ==
    (IF "A" \in DOMAIN pipelines THEN stats[pipelines["A"]][f] ELSE 0)
    + (IF "B" \in DOMAIN pipelines THEN stats[pipelines["B"]][f] ELSE 0)

\* C7: monitor_performance returns the number of registered names, the sums
\* of the counters of the pipelines registered under them, and efficiency =
\* total_success / (total_success + total_errors) * 100, or 0 when that sum
\* is 0; it never divides by zero, and returns four zeros for an empty
\* registry.
C7_MonitorPerformance ==
    last.op = "monitor_performance" =>
        LET m == last.report.m
            S == RegisteredTotal("success")
            E == RegisteredTotal("errors")
        IN  /\ ~last.raised
            /\ m.total_pipelines = Cardinality(DOMAIN pipelines)
            /\ m.total_success = S
            /\ m.total_errors = E
            /\ m.efficiency.den > 0
            /\ m.efficiency.num * (S + E) = S * 100 * m.efficiency.den
            /\ S + E = 0 => m.efficiency.num = 0
            /\ DOMAIN pipelines = {} =>
                   /\ m.total_pipelines = 0
                   /\ m.total_success = 0
                   /\ m.total_errors = 0
                   /\ m.efficiency.num = 0

\* C7 witness: monitor_performance has reported on two registered pipelines
\* with a success and an error between them
C7_Witness ==
    /\ last.op = "monitor_performance"
    /\ last.report.m.total_pipelines = 2
    /\ last.report.m.total_success = 1
    /\ last.report.m.total_errors = 1

\* C8: when a stage raises during execute, no later stage is invoked, execute
\* returns None and nothing is raised to its caller; execute never changes the
\* stage list, and an execute in which no stage raises invokes every stage
\* and returns what the last one produced.
C8_FailFastAndRecover ==
    [][\A p \in Pids :
          (last'.op = "execute" /\ last'.pid = p) =>
              LET k == FailsAt(stages[p], last'.data)
              IN  /\ stages' = stages
                  /\ ~last'.raised
                  /\ k # 0 => /\ last'.failed
                              /\ last'.invoked = k
                              /\ last'.ret = None
                  /\ k = 0 => /\ ~last'.failed
                              /\ last'.invoked = Len(stages[p])
                              /\ last'.ret = After(stages[p], Len(stages[p]), last'.data).val]_vars

\* C8 witness: a pipeline of two stages whose first stage has made an execute
\* fail has then completed an execute
C8_Witness ==
    /\ last.op = "execute"
    /\ ~last.failed
    /\ Len(stages[last.pid]) = 2
    /\ stages[last.pid][1] = "CheckStage"
    /\ last.invoked = 2
    /\ stats[last.pid].errors = 1

\* C9 as claimed: the value execute and execute_pipeline return tells a run
\* that completed from a run that failed; no run that completed returns None,
\* the value of a failed run.
C9_ResultTellsFailure ==
    (RanExecute(last) /\ ~last.failed) => last.ret # None

\* C10 as claimed: no Manager operation raises to its caller.
C10_ManagerNeverRaises ==
    last.op \in ManagerOps => ~last.raised

\* the operations that are not to touch a pipeline's counters
CounterFrameOps == {"add_stage", "process", "get_stats", "register_pipeline",
                    "chain_pipelines", "get_all_stats", "monitor_performance"}

\* C11: the counters of a pipeline start at success = 0 and errors = 0; a
\* step that changes them is an execute of that pipeline (called directly or
\* by execute_pipeline) and adds 1 to one of them; add_stage, process,
\* get_stats, register_pipeline, chain_pipelines, get_all_stats and
\* monitor_performance leave them as they were; no counter ever decreases.
C11_CountersOwnedByExecute ==
    /\ \A p \in Pids : stats[p].success = 0 /\ stats[p].errors = 0
    /\ [][/\ \A p \in Pids :
              /\ stats'[p].success >= stats[p].success
              /\ stats'[p].errors >= stats[p].errors
              /\ stats'[p] # stats[p] =>
                     /\ RanExecute(last')
                     /\ last'.pid = p
                     /\ stats'[p].success + stats'[p].errors =
                            stats[p].success + stats[p].errors + 1
          /\ last'.op \in CounterFrameOps => stats' = stats]_vars

\* C11 witness: chain_pipelines has run a registered pipeline whose counters
\* show a success and an error, while the other pipeline has counted nothing
C11_Witness ==
    /\ last.op = "chain_pipelines"
    /\ Len(last.names) >= 1
    /\ IsRegistered(last.names[1])
    /\ stats[pipelines[last.names[1]]] = [success |-> 1, errors |-> 1]
    /\ \E q \in Pids : stats[q] = [success |-> 0, errors |-> 0]

\* C12: add_stage puts the stage at the end of the pipeline's stage list;
\* process(r), on a pipeline of any adapter class, gives r to the stage added
\* first and each stage's output to the stage added next, and returns the
\* output of the stage added last; with no stage it returns r.
C12_ProcessFoldsInOrder ==
    [][/\ last'.op = "add_stage" =>
              stages' = [stages EXCEPT ![last'.pid] = Append(@, last'.data)]
       /\ last'.op = "process" =>
              LET stgs == stages[last'.pid]
                  n == Len(stgs)
                  expected == After(stgs, n, last'.data)
              IN  /\ stages' = stages
                  /\ last'.raised = expected.raised
                  /\ ~expected.raised => /\ last'.ret = expected.val
                                         /\ last'.invoked = n
                  /\ n = 0 => /\ ~last'.raised
                              /\ last'.ret = last'.data]_vars

\* C12 witness: process on a StreamAdapter with two stages has returned what
\* the second stage makes of the first stage's output
C12_Witness ==
    /\ last.op = "process"
    /\ adapter[last.pid] = "StreamAdapter"
    /\ stages[last.pid] = <<"OutputStage", "OutputStage">>
    /\ last.data = JsonData
    /\ last.ret = OutStream

\* what the caller reads from the dict it keeps
Seen == IF held.obj \in Pids THEN stats[held.obj] ELSE held.val

\* C13: get_stats returns the counters of its pipeline and get_all_stats the
\* counters of each registered pipeline, as they are at the call; a caller's
\* write to a dict it was returned leaves every pipeline's counters as they
\* were, and a step in which the caller does not touch that dict, an execute
\* among them, leaves what the caller reads from it as it was.
C13_SnapshotIndependent ==
    [][/\ last'.op = "get_stats" =>
              last'.report.stats = [success |-> stats[last'.pid].success,
                                    errors |-> stats[last'.pid].errors]
       /\ last'.op = "get_all_stats" =>
              \A n \in DOMAIN pipelines :
                  last'.report.all[n] = [success |-> stats[pipelines[n]].success,
                                         errors |-> stats[pipelines[n]].errors]
       /\ (held'.written /\ ~held.written) => stats' = stats
       /\ held' = held => Seen' = Seen]_vars

\* C13 witness: a caller kept a dict returned before its pipeline counted
\* anything and wrote success = 7 into it, and the pipeline has since
\* counted a success and an error in two executes
C13_Witness ==
    /\ held.obj # "none"
    /\ held.written
    /\ held.val = [success |-> 7, errors |-> 0]
    /\ stats[held.of] = [success |-> 1, errors |-> 1]
    /\ last.op = "execute"
    /\ last.pid = held.of

\* no pipeline object is registered under two names
OneNameEach ==
    \A n \in DOMAIN pipelines, m \in DOMAIN pipelines :
        pipelines[n] = pipelines[m] => n = m

\* C14: when no pipeline is registered under two names and execute is called
\* by execute_pipeline only, the length of the history is total_success +
\* total_errors, both as monitor_performance would report them now and as it
\* reported them when it was the call made last.
C14_HistoryMatchesTotals ==
    OneNameEach =>
        /\ Len(execution_history) =
               monitor_performance_value.total_success
               + monitor_performance_value.total_errors
        /\ last.op = "monitor_performance" =>
               Len(execution_history) =
                   last.report.m.total_success + last.report.m.total_errors

\* C14 witness: monitor_performance has reported a success and an error of
\* two pipelines registered under a name each, after two execute_pipeline
\* calls
C14_Witness ==
    /\ last.op = "monitor_performance"
    /\ DOMAIN pipelines = Names
    /\ OneNameEach
    /\ Len(execution_history) = 2
    /\ last.report.m.total_success = 1
    /\ last.report.m.total_errors = 1
    /\ execution_history[1].pipeline # execution_history[2].pipeline

====
